---------------------------- MODULE Spec2Model ----------------------------
(***************************************************************************)
(* A model of src/server.js: the CDP protocol client (connectCDP and its   *)
(* call correlation), discover(), updateSnapshots() and the broadcasts.    *)
(*                                                                         *)
(* JavaScript runs every handler to completion, so one action is one       *)
(* handler: the code from the event that resumes it (a reply, a socket     *)
(* event, a timer) to the next await.                                      *)
(*                                                                         *)
(* The specifications of the module:                                       *)
(*   SpecCall      one Transport Session: call(), the message handlers,    *)
(*                 the context tracker and the socket closing;             *)
(*   Spec          the registry under discover();                          *)
(*   SpecSampling  the registry under discover() and updateSnapshots().    *)
(***************************************************************************)
EXTENDS Integers, Sequences, FiniteSets, TLC

(***************************************************************************)
(* Bounds of the model.                                                    *)
(***************************************************************************)
\* calls issued on the session of SpecCall
MaxCalls == 3
\* frames the remote has sent that the event loop has not dispatched yet
MaxWire == 2
\* execution context ids the remote uses
MaxCtx == 1
\* connections that exist at the same time (closed, unreferenced ones are reused)
MaxConns == 2
\* discover() invocations in flight at the same time
MaxRuns == 1
\* candidates one discovery cycle collects over all ports
MaxTargets == 2
\* captureHTML calls in flight on one entry (overlapping updateSnapshots batches)
MaxSampling == 2
\* subscribers of the push channel
MaxClients == 2
\* length of the transport addresses given to hashString in SpecHash
MaxLen == 2

\* PORTS.length
NumPorts == 4

Null == "null"

Range(s) == {s[i] : i \in DOMAIN s}

(***************************************************************************)
(* hashString.  Strings are sequences of char codes.  The running hash is  *)
(* a 32-bit integer kept as two 16-bit limbs <<hi, lo>> (its two's         *)
(* complement bits), so that 31 * hash + char wraps as `hash & hash` does. *)
(* toString(36) is a sequence of the digits 0..35, most significant first, *)
(* led by Minus for a negative hash.                                       *)
(***************************************************************************)
Limb == 65536

Minus == -1

\* ((hash << 5) - hash) + char, then hash & hash: 31 * hash + char mod 2^32
HashStep(h, char) ==
    LET lo == h[2] * 31 + char
        hi == h[1] * 31 + (lo \div Limb)
    IN  <<hi % Limb, lo % Limb>>

RECURSIVE HashLoop(_, _, _)
HashLoop(str, i, h) ==
    IF i > Len(str) THEN h ELSE HashLoop(str, i + 1, HashStep(h, str[i]))

\* the magnitude of the 32-bit value whose bits are h, and whether it is negative
Magnitude(h) ==
    IF h[1] < Limb \div 2 THEN h
    ELSE LET lo == (Limb - 1 - h[2]) + 1
             hi == (Limb - 1 - h[1]) + (lo \div Limb)
         IN  <<hi, lo % Limb>>

\* the digits of the two-limb natural m in base 36
RECURSIVE Digits36(_)
Digits36(m) ==
    LET qh == m[1] \div 36
        rest == (m[1] % 36) * Limb + m[2]
        q == <<qh, rest \div 36>>
        d == rest % 36
    IN  IF q = <<0, 0>> THEN <<d>> ELSE Append(Digits36(q), d)

ToString36(h) ==
    IF h[1] < Limb \div 2 THEN Digits36(h) ELSE <<Minus>> \o Digits36(Magnitude(h))

hashString(str) == ToString36(HashLoop(str, 1, <<0, 0>>))

\* the characters of the addresses of SpecHash: "A", "B", "a"
Alphabet == {65, 66, 97}

Addresses == UNION {[1..n -> Alphabet] : n \in 0..MaxLen}

NotHashed == [first |-> <<>>, second |-> <<>>, ids |-> <<>>]

(***************************************************************************)
(* State.                                                                  *)
(***************************************************************************)
VARIABLES
    \* ---- one Transport Session (SpecCall) ----
    sock,        \* ws.readyState of the session: "open" or "closed"
    idCounter,   \* the next request id
    handlers,    \* ids whose message handler is registered on ws (pending slots)
    promise,     \* per call id, the state of the promise call() returned
    contexts,    \* the session's context list
    wire,        \* frames the remote sent, in order, not yet dispatched
    \* ---- the registry (Spec) ----
    cascades,    \* the installed registry: identity -> entry object
    heap,        \* the cdp/entry objects, by connection number
    runs,        \* the discover() invocations in flight, in start order
    sampling,    \* per entry object, captureHTML calls in flight
    out,         \* the messages the last step handed to broadcast()
    clients,     \* wss.clients: per subscriber, the state of its socket
    hashed,      \* two transport addresses and the identities computed for them
    \* ---- history ----
    captured,    \* per identity, the payload of its last successful capture
    last         \* the reply handled last ("step": another handler ran), and
                 \* the discovery cycle that step ended, if it ended one

callVars == <<sock, idCounter, handlers, promise, contexts, wire>>
regVars == <<cascades, heap, runs, sampling, out, clients, hashed, captured>>
vars == <<sock, idCounter, handlers, promise, contexts, wire,
          cascades, heap, runs, sampling, out, clients, hashed, captured, last>>

(***************************************************************************)
(* The Transport Session: connectCDP's call(), handlers and context list.  *)
(***************************************************************************)
CallIds == 1..MaxCalls
CtxIds == 1..MaxCtx
Vals == {"r1", "r2"}

Pending == [state |-> "pending", val |-> Null]

\* {id, result} or {id, error}: a call reply.  The remote may use any id.
Replies ==
    [method : {Null}, id : 1..(MaxCalls + 1), error : {Null, "e1"},
     result : Vals, ctx : {0}]

\* {method, params}: Runtime.executionContextCreated / Destroyed
NotificationsOf(ctxs) ==
    [method : {"created", "destroyed"}, id : {0}, error : {Null},
     result : {Null}, ctx : ctxs]

Notifications == NotificationsOf(CtxIds)

Frames == Replies \cup Notifications

\* a handler that takes any reply for its own
HandlerMatchesAnyReply(id, data) == data.method = Null

\* the handler of call id, given the parsed frame: if (data.id === id)
HandlerMatches(id, data) == data.id = id

\* if (data.error) reject(data.error); else resolve(data.result);
Settle(data) ==
    IF data.error # Null THEN [state |-> "rejected", val |-> data.error]
    ELSE [state |-> "resolved", val |-> data.result]

\* contexts.findIndex(c => c.id === id), 0 for -1
RECURSIVE FindIndex(_, _, _)
FindIndex(ctxs, id, i) ==
    IF i > Len(ctxs) THEN 0
    ELSE IF ctxs[i] = id THEN i ELSE FindIndex(ctxs, id, i + 1)

\* contexts.splice(idx, 1)
Splice(ctxs, idx) ==
    [j \in 1..(Len(ctxs) - 1) |-> IF j < idx THEN ctxs[j] ELSE ctxs[j + 1]]

\* the context tracker: ws.on('message') of connectCDP
TrackContexts(ctxs, data) ==
    IF data.method = "created" THEN Append(ctxs, data.ctx)
    ELSE IF data.method = "destroyed"
         THEN LET idx == FindIndex(ctxs, data.ctx, 1)
              IN  IF idx # 0 THEN Splice(ctxs, idx) ELSE ctxs
         ELSE ctxs

InitCall ==
    /\ sock = "open"
    /\ idCounter = 1
    /\ handlers = {}
    /\ promise = [k \in CallIds |-> Pending]
    /\ contexts = <<>>
    /\ wire = <<>>

\* ws.send on a socket that is not open: the ws library throws (up to 6.x)
\* or drops the frame silently (from 7.0)
SendOnClosed == {"throw", "drop"}

\* call(method, params): allocate the id, register the handler, send
Call ==
    /\ idCounter <= MaxCalls
    /\ \E lib \in SendOnClosed :
        /\ idCounter' = idCounter + 1
        /\ handlers' = handlers \cup {idCounter}
        /\ promise' = IF sock # "open" /\ lib = "throw"
                      THEN [promise EXCEPT ![idCounter] =
                                [state |-> "rejected", val |-> "not open"]]
                      ELSE promise
        /\ last' = [op |-> "call", arg |-> idCounter, done |-> <<>>]
    /\ UNCHANGED <<sock, contexts, wire, regVars>>

\* the remote writes a frame to the socket
RemoteSend ==
    /\ sock = "open"
    /\ Len(wire) < MaxWire
    /\ \E f \in Frames :
        /\ f.method = "created" => FindIndex(contexts, f.ctx, 1) = 0
        /\ wire' = Append(wire, f)
        /\ last' = [op |-> "send", arg |-> f, done |-> <<>>]
    /\ UNCHANGED <<sock, idCounter, handlers, promise, contexts, regVars>>

\* the 'message' event: every registered handler and the tracker see the frame
Dispatch ==
    /\ sock = "open"
    /\ wire # <<>>
    /\ LET data == Head(wire)
           hit == {k \in handlers : HandlerMatches(k, data)}
       IN  /\ handlers' = handlers \ hit
           /\ promise' = [k \in CallIds |->
                            IF k \in hit /\ promise[k].state = "pending"
                            THEN Settle(data) ELSE promise[k]]
           /\ contexts' = TrackContexts(contexts, data)
           /\ last' = [op |-> "dispatch", arg |-> data, done |-> <<>>]
    /\ wire' = Tail(wire)
    /\ UNCHANGED <<sock, idCounter, regVars>>

\* the connection terminates: the remote closes it or the program calls
\* ws.close().  connectCDP registers no 'close' handler.
CloseSession ==
    /\ sock = "open"
    /\ sock' = "closed"
    /\ wire' = <<>>
    /\ last' = [op |-> "close", arg |-> 0, done |-> <<>>]
    /\ UNCHANGED <<idCounter, handlers, promise, contexts, regVars>>


(***************************************************************************)
(* The registry: objects, discover(), updateSnapshots(), broadcasts.       *)
(***************************************************************************)
Conns == 1..MaxConns

\* webSocketDebuggerUrl strings ("a", "b") and their identities
Urls == {<<97>>, <<98>>}
Ids == {hashString(u) : u \in Urls}

\* window titles, as their parts between " - "
WindowTitles == {<<"proj", "editor">>, <<"file", "proj", "editor">>}

\* the records of a /json/list body that pass the workbench filter: the
\* window of "a" can change its title
Workbenches ==
    {t \in [webSocketDebuggerUrl : Urls, title : WindowTitles] :
        t.webSocketDebuggerUrl = <<97>> \/ t.title = <<"proj", "editor">>}

\* the sockets that connect to the push channel
Subscribers == 1..MaxClients

\* what the content script of captureHTML sees
Htmls == {<<97>>, <<98>>}

\* what the most recently modified brain directory is, if any
BrainDirs == {Null, "b1"}

\* the values the script of extractMetadata returns when it finds #cascade
MetaPayloads ==
    { [found |-> TRUE, chatTitle |-> "Agent", isActive |-> TRUE,
       conversationId |-> Null, url |-> "u1"],
      [found |-> TRUE, chatTitle |-> "Chat", isActive |-> FALSE,
       conversationId |-> "c1", url |-> "u1"] }

NotFound == [found |-> FALSE, reason |-> "no cascade element"]

\* extractMetadata's `return null`
NoMeta == [found |-> FALSE]

\* the replies to Runtime.evaluate of the metadata script, for the payloads
\* the page can produce
MetaRepliesOf(payloads) ==
    {[error |-> FALSE, value |-> v] : v \in payloads \cup {NotFound}}
        \cup {[error |-> TRUE, value |-> NotFound]}

MetaReplies == MetaRepliesOf(MetaPayloads)

\* what captureCSS returns: result.result?.value?.css || '', '' on an error
CssValues == {"css1", ""}

NoMetadata == [made |-> FALSE]

\* a connection number that no object uses
FreeObj ==
    [url |-> <<>>, ready |-> "free", contexts |-> <<>>, rootContextId |-> 0,
     made |-> FALSE, id |-> <<>>, metadata |-> NoMetadata, snapshot |-> <<>>,
     css |-> Null, snapshotHash |-> <<>>, lastCapture |-> <<>>, mute |-> FALSE]

\* the remote of connection c is there to reply: the socket is open and the
\* page has not stopped replying
Answers(c) == heap[c].ready = "open" /\ ~heap[c].mute

\* a discover() invocation at its start.  History: prior is the entry whose
\* connection was found dead, tried the contexts extractMetadata has called,
\* solo and mid belong to TrackViews, stale tells that an invocation started
\* later has installed its registry
NewRun ==
    [pc |-> "fetch", pending |-> NumPorts, targets |-> <<>>,
     newCascades |-> <<>>, cdp |-> 0, path |-> Null, phase |-> Null,
     ctxi |-> 0, ctx |-> 0, meta |-> NoMeta, conversationId |-> Null,
     prior |-> 0, tried |-> {}, solo |-> FALSE, mid |-> <<>>, stale |-> FALSE]

\* { ...a, ...b }
Merge(a, b) ==
    [f \in (DOMAIN a) \cup (DOMAIN b) |-> IF f \in DOMAIN b THEN b[f] ELSE a[f]]

\* map.set(k, v)
Put(m, k, v) == [x \in (DOMAIN m) \cup {k} |-> IF x = k THEN v ELSE m[x]]

Least(S) == CHOOSE c \in S : \A d \in S : c <= d

\* what a reader of the registry sees of the entries' metadata
View(st) == [id \in DOMAIN st.cascades |-> st.heap[st.cascades[id]].metadata]

RegistryView == [id \in DOMAIN cascades |-> heap[cascades[id]].metadata]

(***************************************************************************)
(* A handler is a function of the program state st it starts in:           *)
(*   cascades, heap, runs, sampling   the program's state                  *)
(*   out     the messages it broadcasts                                    *)
(*   lib     how the ws library treats a send on a socket that is not open *)
(*   brain   what getMostRecentBrainDir() returns if it is asked           *)
(*   ok      FALSE when the step needs more connections than MaxConns      *)
(*   done    the discovery cycle this step ended, if it ended one: its     *)
(*           place among the invocations, what TrackViews recorded of it,  *)
(*           the identities it replaced and the registry it installed      *)
(***************************************************************************)
Here(lib, brain) ==
    [cascades |-> cascades, heap |-> heap, runs |-> runs, sampling |-> sampling,
     out |-> <<>>, lib |-> lib, brain |-> brain, ok |-> TRUE, done |-> <<>>]

\* the identity of the candidate run r is at
TargetId(st, r) == hashString(Head(st.runs[r].targets).webSocketDebuggerUrl)

\* const changed = cascades.size !== newCascades.size, evaluated after the
\* assignment cascades = newCascades
ChangedAfterInstall(old, new) ==
    Cardinality(DOMAIN new) # Cardinality(DOMAIN new)

\* const changed = cascades.size !== newCascades.size
Changed(old, new) == Cardinality(DOMAIN old) # Cardinality(DOMAIN new)

\* extractProjectName(title)
extractProjectName(title) ==
    IF Len(title) >= 3 THEN title[Len(title) - 1]
    ELSE IF Len(title) = 2 THEN title[1] ELSE title

\* the message of broadcastCascadeList() (the entries as a set)
CascadeList(reg, objs) ==
    [type |-> "cascade_list",
     cascades |-> {[id |-> objs[reg[i]].id,
                    title |-> objs[reg[i]].metadata.chatTitle,
                    window |-> objs[reg[i]].metadata.windowTitle,
                    projectName |-> extractProjectName(objs[reg[i]].metadata.windowTitle),
                    active |-> objs[reg[i]].metadata.isActive] : i \in DOMAIN reg}]

\* c.cdp.ws.close()
CloseWs(objs, c) ==
    IF objs[c].ready \in {"open", "connecting"}
    THEN [objs EXCEPT ![c].ready = "closed"] ELSE objs

\* discover(), 3. Cleanup old, install, broadcast
Finish(st, r) ==
    LET run == st.runs[r]
        new == run.newCascades
        gone == {st.cascades[i] : i \in (DOMAIN st.cascades) \ (DOMAIN new)}
        objs == [c \in Conns |->
                    IF c \in gone THEN CloseWs(st.heap, c)[c] ELSE st.heap[c]]
        changed == Changed(st.cascades, new)
    IN  [st EXCEPT
            !.heap = objs,
            !.cascades = new,
            !.runs = [j \in 1..(Len(st.runs) - 1) |->
                        IF j < r THEN [st.runs[j] EXCEPT !.stale = TRUE]
                        ELSE st.runs[j + 1]],
            !.out = st.out \o (IF changed THEN <<CascadeList(new, objs)>> ELSE <<>>),
            !.done = <<[run |-> r, solo |-> run.solo, mid |-> run.mid,
                        stale |-> run.stale,
                        old |-> DOMAIN st.cascades, new |-> new]>>]

\* new WebSocket(url): connectCDP up to its first await
NewConnection(st, r, prior) ==
    LET free == {c \in Conns : st.heap[c].ready = "free"}
        c == Least(free)
    IN  IF free = {} THEN [st EXCEPT !.ok = FALSE]
        ELSE [st EXCEPT
                !.heap[c] = [FreeObj EXCEPT
                                !.url = Head(st.runs[r].targets).webSocketDebuggerUrl,
                                !.ready = "connecting"],
                !.runs[r].pc = "connecting",
                !.runs[r].cdp = c,
                !.runs[r].path = "new",
                !.runs[r].phase = Null,
                !.runs[r].ctxi = 0,
                !.runs[r].ctx = 0,
                !.runs[r].tried = {},
                !.runs[r].prior = prior]

MetadataFields == {"windowTitle", "chatTitle", "isActive", "conversationId", "url"}

\* the metadata of a new entry, were it { ...existing.metadata, ...meta } when
\* the identity had an entry
NewMetadataMerged(prior, target, meta, conversationId) ==
    LET fresh == [windowTitle |-> target.title, chatTitle |-> meta.chatTitle,
                  isActive |-> meta.isActive, conversationId |-> conversationId,
                  url |-> meta.url]
    IN  IF prior = NoMetadata THEN fresh
        ELSE [f \in MetadataFields |-> Merge(prior, meta)[f]]

\* metadata: { windowTitle, chatTitle, isActive, conversationId, url }
NewMetadata(prior, target, meta, conversationId) ==
    [windowTitle |-> target.title, chatTitle |-> meta.chatTitle,
     isActive |-> meta.isActive, conversationId |-> conversationId,
     url |-> meta.url]

\* a failure branch that forgets the connection without closing it
CloseOnFailureSkipped(objs, c) == objs

\* if (meta) { ... } else { cdp.ws.close(); }
CloseOnFailure(objs, c) == CloseWs(objs, c)

\* a refresh in which the cached fields win over the refreshed ones
RefreshedMetadataCachedWins(metadata, meta) == Merge(meta, metadata)

\* existing.metadata = { ...existing.metadata, ...meta }
RefreshedMetadata(metadata, meta) == Merge(metadata, meta)

RECURSIVE LoopHead(_, _)
RECURSIVE Search(_, _, _)
RECURSIVE MetaReturn(_, _, _)

\* the end of one iteration of `for (const target of allTargets)`
NextTarget(st, r) ==
    LoopHead([st EXCEPT
                !.runs[r].targets = Tail(st.runs[r].targets),
                !.runs[r].cdp = 0,
                !.runs[r].path = Null,
                !.runs[r].phase = Null,
                !.runs[r].ctxi = 0,
                !.runs[r].ctx = 0,
                !.runs[r].meta = NoMeta,
                !.runs[r].conversationId = Null,
                !.runs[r].tried = {},
                !.runs[r].prior = 0], r)

\* the call of extractMetadata's search loop for the context at index i
Search(st, r, i) ==
    LET c == st.runs[r].cdp
        ctxs == st.heap[c].contexts
        called == [st EXCEPT !.runs[r].tried = st.runs[r].tried \cup {ctxs[i]}]
        waiting == [called EXCEPT !.runs[r].pc = "meta", !.runs[r].phase = "search",
                                  !.runs[r].ctxi = i, !.runs[r].ctx = ctxs[i]]
    IN  IF i > Len(ctxs) THEN MetaReturn(st, r, NoMeta)
        ELSE IF st.heap[c].ready = "open" THEN waiting
        ELSE IF st.lib = "throw" THEN Search(called, r, i + 1)
        ELSE waiting

\* extractMetadata(cdp), up to its first await
MetaStart(st, r, c, path) ==
    LET root == st.heap[c].rootContextId
        st1 == [st EXCEPT !.runs[r].cdp = c, !.runs[r].path = path,
                          !.runs[r].tried = IF root # 0 THEN {root} ELSE {}]
        waiting == [st1 EXCEPT !.runs[r].pc = "meta", !.runs[r].phase = "direct",
                               !.runs[r].ctxi = 0, !.runs[r].ctx = root]
    IN  IF root # 0
        THEN IF st.heap[c].ready = "open" THEN waiting
             ELSE IF st.lib = "throw"
                  THEN Search([st1 EXCEPT !.heap[c].rootContextId = 0], r, 1)
                  ELSE waiting
        ELSE Search(st1, r, 1)

\* the cascade object of discover()'s new-connection path, once captureCSS
\* has returned css
CreateEntry(st, r, css) ==
    LET run == st.runs[r]
        c == run.cdp
        id == TargetId(st, r)
    IN  NextTarget([st EXCEPT
            !.heap[c].made = TRUE,
            !.heap[c].id = id,
            !.heap[c].metadata =
                NewMetadata(IF run.prior = 0 THEN NoMetadata
                            ELSE st.heap[run.prior].metadata,
                            Head(run.targets), run.meta, run.conversationId),
            !.heap[c].snapshot = <<>>,
            !.heap[c].css = css,
            !.heap[c].snapshotHash = <<>>,
            !.runs[r].newCascades = Put(run.newCascades, id, c)], r)

\* discover() from the return of extractMetadata to the next await
MetaReturn(st, r, meta) ==
    LET run == st.runs[r]
        c == run.cdp
        root == IF meta.contextId # 0 THEN meta.contextId
                ELSE st.heap[c].rootContextId
        conversationId == IF meta.conversationId # Null THEN meta.conversationId
                          ELSE st.brain
        st1 == [st EXCEPT !.heap[c].rootContextId = root,
                          !.runs[r].meta = meta,
                          !.runs[r].conversationId = conversationId]
        waiting == [st1 EXCEPT !.runs[r].pc = "css", !.runs[r].phase = Null,
                               !.runs[r].ctxi = 0, !.runs[r].ctx = 0]
    IN  IF run.path = "reuse"
        THEN IF meta.found
             THEN NextTarget([st EXCEPT
                     !.heap[c].metadata = RefreshedMetadata(st.heap[c].metadata, meta),
                     !.heap[c].rootContextId = root,
                     !.runs[r].newCascades =
                         Put(run.newCascades, TargetId(st, r), c)], r)
             ELSE NewConnection(st, r, 0)
        ELSE IF meta.found
             THEN \* captureCSS(cdp)
                  IF root = 0 THEN CreateEntry(st1, r, Null)
                  ELSE IF st.heap[c].ready = "open" THEN waiting
                  ELSE IF st.lib = "throw" THEN CreateEntry(st1, r, "")
                  ELSE waiting
             ELSE NextTarget([st EXCEPT !.heap = CloseOnFailure(st.heap, c)], r)

\* the head of `for (const target of allTargets)`, up to the next await
LoopHead(st, r) ==
    IF st.runs[r].targets = <<>> THEN Finish(st, r)
    ELSE LET id == TargetId(st, r)
         IN  IF id \in DOMAIN st.cascades
             THEN LET existing == st.cascades[id]
                  IN  IF st.heap[existing].ready = "open"
                      THEN MetaStart(st, r, existing, "reuse")
                      ELSE NewConnection(st, r, existing)
             ELSE NewConnection(st, r, 0)

\* the reply to the Runtime.evaluate of extractMetadata
OnMetaReply(st, r, reply) ==
    LET run == st.runs[r]
        c == run.cdp
        found == ~reply.error /\ reply.value.found
    IN  IF run.phase = "direct"
        THEN IF found
             THEN MetaReturn(st, r,
                     Merge(reply.value, [contextId |-> st.heap[c].rootContextId]))
             ELSE IF reply.error
                  THEN Search([st EXCEPT !.heap[c].rootContextId = 0], r, 1)
                  ELSE Search(st, r, 1)
        ELSE IF found
             THEN MetaReturn(st, r, Merge(reply.value, [contextId |-> run.ctx]))
             ELSE Search(st, r, run.ctxi + 1)

(***************************************************************************)
(* What a step leaves behind.  An object nothing refers to any more is     *)
(* garbage: its fields are forgotten, and its connection number is used    *)
(* again once the socket is closed.  A call on a socket that has closed    *)
(* never returns (call() has no timer and ws has no 'close' handler), so   *)
(* the captures in flight on it are forgotten.                             *)
(***************************************************************************)
Referenced(st, c) ==
    \/ c \in Range(st.cascades)
    \/ \E r \in DOMAIN st.runs :
          \/ st.runs[r].cdp = c
          \/ st.runs[r].prior = c
          \/ c \in Range(st.runs[r].newCascades)
    \/ st.sampling[c] > 0 /\ st.heap[c].ready = "open"

Collect(st) ==
    [c \in Conns |->
        IF Referenced(st, c) THEN st.heap[c]
        ELSE IF st.heap[c].ready = "open"
             THEN [FreeObj EXCEPT !.url = st.heap[c].url, !.ready = "open"]
             ELSE FreeObj]

\* history: the first view of the registry, during a cycle that runs alone,
\* that differs from the view before it (the view at the cycle's start)
TrackViews(st) ==
    [r \in DOMAIN st.runs |->
        IF st.runs[r].solo /\ st.runs[r].mid = <<>> /\ View(st) # RegistryView
        THEN [st.runs[r] EXCEPT !.mid = <<View(st)>>]
        ELSE st.runs[r]]

Commit(st, op, arg) ==
    /\ st.ok
    /\ cascades' = st.cascades
    /\ heap' = Collect(st)
    /\ runs' = TrackViews(st)
    /\ sampling' = [c \in Conns |->
                      IF st.heap[c].ready = "open" THEN st.sampling[c] ELSE 0]
    /\ out' = st.out
    /\ last' = [op |-> op, arg |-> arg, done |-> st.done]
    /\ UNCHANGED <<clients, hashed>>
    /\ UNCHANGED callVars

(***************************************************************************)
(* The handlers of discover().  r is the place of the invocation among     *)
(* those in flight.  Only connectCDP's return and updateSnapshots can send *)
(* on a socket that has closed; only the metadata reply can ask for the    *)
(* brain directory.                                                        *)
(***************************************************************************)
\* the candidate lists a cycle can collect: the workbench records of the
\* bodies of the ports, in the order the ports answered
TargetLists == UNION {[1..n -> Workbenches] : n \in 0..MaxTargets}

\* setInterval(discover, DISCOVERY_INTERVAL): discover() up to its first await
StartDiscover(limit) ==
    /\ Len(runs) < limit
    /\ LET st == Here("throw", Null)
           alone == runs = <<>>
           others == [r \in DOMAIN runs |->
                        [runs[r] EXCEPT !.solo = FALSE, !.mid = <<>>]]
           run == [NewRun EXCEPT !.solo = alone]
       IN  Commit([st EXCEPT !.runs = Append(others, run)], "step", 0)
    /\ UNCHANGED captured

\* Promise.all over the ports resolves: every getJson has resolved, with the
\* body or with [] (network error, timeout, unparsable body), and the
\* callbacks have pushed the workbench records; the target loop starts
FetchDone(r, lists) ==
    /\ runs[r].pc = "fetch"
    /\ \E allTargets \in lists :
        Commit(LoopHead([Here("throw", Null) EXCEPT
                            !.runs[r].targets = allTargets,
                            !.runs[r].pending = 0], r),
               "step", 0)
    /\ UNCHANGED captured

\* discover() rejects: the invocation is over and has installed nothing
Reject(st, r) ==
    [st EXCEPT !.runs = [j \in 1..(Len(st.runs) - 1) |->
                            IF j < r THEN st.runs[j] ELSE st.runs[j + 1]]]

\* a port answers with a body that JSON.parse accepts and that is not an
\* array ({}, an error object, a number): getJson resolves with it, list.filter
\* is not a function, the callback throws, Promise.all and discover() reject
FetchRejects(r) ==
    /\ runs[r].pc = "fetch"
    /\ Commit(Reject(Here("throw", Null), r), "step", 0)
    /\ UNCHANGED captured

\* the socket's 'open' or 'error' event
ConnectResult(r) ==
    /\ runs[r].pc = "connecting"
    /\ \E opened \in BOOLEAN :
        LET st == Here("throw", Null)
            c == runs[r].cdp
        IN  Commit(IF opened
                   THEN [st EXCEPT !.heap[c].ready = "open", !.runs[r].pc = "enable"]
                   ELSE NextTarget([st EXCEPT !.heap[c].ready = "closed"], r),
                   "step", 0)
    /\ UNCHANGED captured

\* the reply to Runtime.enable
EnableReply(r) ==
    /\ runs[r].pc = "enable"
    /\ Answers(runs[r].cdp)
    /\ \E error \in BOOLEAN :
        LET st == Here("throw", Null)
        IN  Commit(IF error THEN NextTarget(st, r)
                   ELSE [st EXCEPT !.runs[r].pc = "settle"],
                   "step", 0)
    /\ UNCHANGED captured

\* the 500 ms timer of connectCDP: it returns and extractMetadata starts
SettleTimer(r) ==
    /\ runs[r].pc = "settle"
    /\ \E lib \in SendOnClosed :
        Commit(MetaStart(Here(lib, Null), r, runs[r].cdp, "new"),
               "step", 0)
    /\ UNCHANGED captured

\* the reply to a Runtime.evaluate of extractMetadata
MetaReply(r, replies, brains) ==
    /\ runs[r].pc = "meta"
    /\ Answers(runs[r].cdp)
    /\ \E reply \in replies, brain \in brains :
        Commit(OnMetaReply(Here("throw", brain), r, reply),
               "meta", [conn |-> runs[r].cdp, path |-> runs[r].path,
                        found |-> ~reply.error /\ reply.value.found,
                        value |-> IF ~reply.error /\ reply.value.found
                                  THEN reply.value ELSE NoMeta])
    /\ UNCHANGED captured

\* the reply to the Runtime.evaluate of captureCSS
CssReply(r, values) ==
    /\ runs[r].pc = "css"
    /\ Answers(runs[r].cdp)
    /\ \E css \in values :
        Commit(CreateEntry(Here("throw", Null), r, css),
               "css", [conn |-> runs[r].cdp, prior |-> runs[r].prior])
    /\ UNCHANGED captured

\* the remote process closes a connection (or dies)
RemoteClose(c) ==
    /\ heap[c].ready = "open"
    /\ Commit([Here("throw", Null) EXCEPT !.heap[c].ready = "closed"],
              "step", 0)
    /\ UNCHANGED captured

\* the page behind a connection stops replying; the socket stays open
RemoteStall(c) ==
    /\ heap[c].ready = "open"
    /\ ~heap[c].mute
    /\ Commit([Here("throw", Null) EXCEPT !.heap[c].mute = TRUE], "step", 0)
    /\ UNCHANGED captured

\* a context notification arrives on a connection
ContextEvent(c, notifications) ==
    /\ heap[c].ready = "open"
    /\ \E f \in notifications :
        /\ f.method = "created" => FindIndex(heap[c].contexts, f.ctx, 1) = 0
        /\ Commit([Here("throw", Null) EXCEPT
                      !.heap[c].contexts = TrackContexts(heap[c].contexts, f)],
                  "step", 0)
    /\ UNCHANGED captured

(***************************************************************************)
(* updateSnapshots().                                                      *)
(***************************************************************************)
\* the replies to the Runtime.evaluate of captureHTML: a snapshot, the
\* script's { error }, or a protocol error
CaptureReplies ==
    [kind : {"snap"}, html : Htmls] \cup [kind : {"nosnap", "error"}, html : {<<>>}]

\* a comparison that always sees a new fingerprint
HashDiffersAlways(hash, snapshotHash) == TRUE

\* if (hash !== c.snapshotHash)
HashDiffers(hash, snapshotHash) == <<hash>> # snapshotHash

\* a captureHTML that calls whether or not the context id is set
CaptureCallsAlways(obj) == TRUE

\* captureHTML: if (!contextId) return null, before the call
CaptureCalls(obj) == obj.rootContextId # 0

\* setInterval(updateSnapshots, POLL_INTERVAL): captureHTML sends its call for
\* every entry whose context id is set.  A send on a closed socket throws
\* (captureHTML returns null) or is dropped (the call never returns).
UpdateSnapshots ==
    /\ LET sends == {c \in Range(cascades) :
                        CaptureCalls(heap[c]) /\ heap[c].ready = "open"}
       IN  /\ \A c \in sends : sampling[c] < MaxSampling
           /\ Commit([Here("throw", Null) EXCEPT
                         !.sampling = [c \in Conns |->
                             IF c \in sends THEN sampling[c] + 1 ELSE sampling[c]]],
                     "sample", 0)
    /\ UNCHANGED captured

\* the reply to the capture in flight on entry object c
CaptureReply(c) ==
    /\ sampling[c] > 0
    /\ Answers(c)
    /\ \E reply \in CaptureReplies :
        LET st == [Here("throw", Null) EXCEPT !.sampling[c] = sampling[c] - 1]
            hash == hashString(reply.html)
            id == heap[c].id
        IN  IF reply.kind = "snap"
            THEN /\ Commit(IF HashDiffers(hash, heap[c].snapshotHash)
                           THEN [st EXCEPT
                                   !.heap[c].snapshot = <<reply.html>>,
                                   !.heap[c].snapshotHash = <<hash>>,
                                   !.heap[c].lastCapture = <<reply.html>>,
                                   !.out = <<[type |-> "snapshot_update",
                                              cascadeId |-> id]>>]
                           ELSE [st EXCEPT !.heap[c].lastCapture = <<reply.html>>],
                           "capture", [conn |-> c, id |-> id, html |-> reply.html])
                 /\ captured' = [captured EXCEPT ![id] = <<reply.html>>]
            ELSE /\ Commit(st, "step", 0)
                 /\ UNCHANGED captured

(***************************************************************************)
(* The push channel.                                                       *)
(***************************************************************************)
\* broadcast(msg): the subscribers a message goes to
Recipients == {s \in Subscribers : clients[s] = "open"}

\* a connection handler that sends nothing
OnConnectionSilent(reg, objs) == <<>>

\* wss.on('connection', (ws) => { broadcastCascadeList(); })
OnConnection(reg, objs) == <<CascadeList(reg, objs)>>

\* a subscriber connects: its socket is open and in wss.clients when the
\* 'connection' event is handled
SubscriberConnect(s) ==
    /\ clients[s] = "none"
    /\ clients' = [clients EXCEPT ![s] = "open"]
    /\ out' = OnConnection(cascades, heap)
    /\ last' = [op |-> "subscribe", arg |-> s, done |-> <<>>]
    /\ UNCHANGED <<cascades, heap, runs, sampling, hashed, captured>>
    /\ UNCHANGED callVars

\* a subscriber's socket closes: ws removes it from wss.clients
SubscriberClose(s) ==
    /\ clients[s] = "open"
    /\ clients' = [clients EXCEPT ![s] = "none"]
    /\ out' = <<>>
    /\ last' = [op |-> "step", arg |-> 0, done |-> <<>>]
    /\ UNCHANGED <<cascades, heap, runs, sampling, hashed, captured>>
    /\ UNCHANGED callVars

(***************************************************************************)
(* The specifications.                                                     *)
(***************************************************************************)
InitRegistry ==
    /\ cascades = <<>>
    /\ heap = [c \in Conns |-> FreeObj]
    /\ runs = <<>>
    /\ sampling = [c \in Conns |-> 0]
    /\ out = <<>>
    /\ clients = [s \in Subscribers |-> "none"]
    /\ hashed = NotHashed
    /\ captured = [i \in Ids |-> <<>>]

Init ==
    /\ InitCall
    /\ InitRegistry
    /\ last = [op |-> "init", arg |-> 0, done |-> <<>>]

\* Spec: the discovery reconciler.  One discover() at a time (a cycle
\* normally ends within DISCOVERY_INTERVAL); updateSnapshots is left out.
Next ==
    \/ StartDiscover(MaxRuns)
    \/ \E r \in DOMAIN runs : FetchDone(r, TargetLists)
    \/ \E r \in DOMAIN runs : FetchRejects(r)
    \/ \E r \in DOMAIN runs : ConnectResult(r)
    \/ \E r \in DOMAIN runs : EnableReply(r)
    \/ \E r \in DOMAIN runs : SettleTimer(r)
    \/ \E r \in DOMAIN runs : MetaReply(r, MetaReplies, BrainDirs)
    \/ \E r \in DOMAIN runs : CssReply(r, CssValues)
    \/ \E c \in Conns : RemoteClose(c)
    \/ \E c \in Conns : ContextEvent(c, Notifications)

Spec == Init /\ [][Next]_vars

\* SpecSampling: updateSnapshots beside the discovery reconciler, for one
\* advertised window whose title and metadata payload are fixed
SamplingTargets ==
    {<<>>, <<[webSocketDebuggerUrl |-> <<97>>, title |-> <<"proj", "editor">>]>>}

SamplingPayload ==
    [found |-> TRUE, chatTitle |-> "Chat", isActive |-> FALSE,
     conversationId |-> "c1", url |-> "u1"]

NextSampling ==
    \/ StartDiscover(MaxRuns)
    \/ \E r \in DOMAIN runs : FetchDone(r, SamplingTargets)
    \/ \E r \in DOMAIN runs : ConnectResult(r)
    \/ \E r \in DOMAIN runs : EnableReply(r)
    \/ \E r \in DOMAIN runs : SettleTimer(r)
    \/ \E r \in DOMAIN runs : MetaReply(r, MetaRepliesOf({SamplingPayload}), {Null})
    \/ \E r \in DOMAIN runs : CssReply(r, {"css1"})
    \/ \E c \in Conns : RemoteClose(c)
    \/ \E c \in Conns : ContextEvent(c, Notifications)
    \/ UpdateSnapshots
    \/ \E c \in Conns : CaptureReply(c)

SpecSampling == Init /\ [][NextSampling]_vars

\* the handlers of discover() for the one window of SamplingTargets
DiscoverOneWindow(limit) ==
    \/ StartDiscover(limit)
    \/ \E r \in DOMAIN runs : FetchDone(r, SamplingTargets)
    \/ \E r \in DOMAIN runs : ConnectResult(r)
    \/ \E r \in DOMAIN runs : EnableReply(r)
    \/ \E r \in DOMAIN runs : SettleTimer(r)
    \/ \E r \in DOMAIN runs : MetaReply(r, MetaRepliesOf({SamplingPayload}), {Null})
    \/ \E r \in DOMAIN runs : CssReply(r, {"css1"})

\* what the remote side does to a connection on its own
RemoteEvents(notifications) ==
    \/ \E c \in Conns : RemoteClose(c)
    \/ \E c \in Conns : ContextEvent(c, notifications)

\* SpecStall: the discovery reconciler for one window whose page can stop
\* replying, while every connection stays open
NextStall ==
    \/ DiscoverOneWindow(MaxRuns)
    \/ \E c \in Conns : ContextEvent(c, Notifications)
    \/ \E c \in Conns : RemoteStall(c)

SpecStall == Init /\ [][NextStall]_vars

\* the timer fires, the ports answer or time out, a connection attempt ends,
\* and a remote that is there to reply replies
FairSpecStall == SpecStall /\ WF_vars(DiscoverOneWindow(MaxRuns))

\* SpecSearch: the discovery reconciler for one window whose page has one
\* more context than in Spec, so that the context list can change under a search
SearchCtxIds == 1..(MaxCtx + 1)

NextSearch ==
    \/ DiscoverOneWindow(MaxRuns)
    \/ RemoteEvents(NotificationsOf(SearchCtxIds))

SpecSearch == Init /\ [][NextSearch]_vars

\* SpecOverlap: the discovery timer fires again while a cycle is in progress
MaxOverlap == MaxRuns + 1

NextOverlap ==
    \/ DiscoverOneWindow(MaxOverlap)
    \/ RemoteEvents(Notifications)

SpecOverlap == Init /\ [][NextOverlap]_vars

\* SpecHub: subscribers come and go beside the discovery reconciler
NextHub ==
    \/ DiscoverOneWindow(MaxRuns)
    \/ RemoteEvents(Notifications)
    \/ \E s \in Subscribers : SubscriberConnect(s)
    \/ \E s \in Subscribers : SubscriberClose(s)

SpecHub == Init /\ [][NextHub]_vars

\* SpecHash: discover() computes the identities of two advertised addresses
InitHash ==
    /\ InitCall
    /\ cascades = <<>>
    /\ heap = [c \in Conns |-> FreeObj]
    /\ runs = <<>>
    /\ sampling = [c \in Conns |-> 0]
    /\ out = <<>>
    /\ clients = [s \in Subscribers |-> "none"]
    /\ hashed \in [first : Addresses, second : Addresses, ids : {<<>>}]
    /\ captured = [i \in Ids |-> <<>>]
    /\ last = [op |-> "init", arg |-> 0, done |-> <<>>]

\* const id = hashString(target.webSocketDebuggerUrl), for both addresses
Identify ==
    /\ hashed.ids = <<>>
    /\ hashed' = [hashed EXCEPT
                    !.ids = <<hashString(hashed.first), hashString(hashed.second)>>]
    /\ last' = [op |-> "step", arg |-> 0, done |-> <<>>]
    /\ UNCHANGED <<cascades, heap, runs, sampling, out, clients, captured>>
    /\ UNCHANGED callVars

NextHash == Identify

SpecHash == InitHash /\ [][NextHash]_vars

NextCall ==
    \/ Call
    \/ RemoteSend
    \/ Dispatch
    \/ CloseSession

SpecCall == Init /\ [][NextCall]_vars

\* the event loop dispatches every frame it has received
FairSpecCall == SpecCall /\ WF_vars(Dispatch)

(***************************************************************************)
(* The properties.                                                         *)
(***************************************************************************)
ListEvents == {i \in DOMAIN out : out[i].type = "cascade_list"}

SnapshotEvents == {i \in DOMAIN out : out[i].type = "snapshot_update"}

\* the connections discover() opened to the address of identity i that are open
OpenFor(i) == {c \in Conns : heap[c].ready = "open" /\ hashString(heap[c].url) = i}

\* C1: in every reachable state, every session identity has at most one open
\* connection that discover() opened for it.
C1_OneOpenConnectionPerIdentity ==
    \A i \in Ids : Cardinality(OpenFor(i)) <= 1

\* C2: a dispatched frame completes exactly the caller whose call was given
\* the id the frame carries, with the frame's result or error, and removes its
\* handler; every other caller, and every caller when the id matches no call
\* in flight, is left as it was.
C2_ReplyCompletesItsCallerOnly ==
    [][last'.op = "dispatch" =>
        \A k \in CallIds :
            IF k \in handlers /\ last'.arg.method = Null /\ last'.arg.id = k
            THEN /\ promise'[k] = IF promise[k] = Pending
                                  THEN Settle(last'.arg) ELSE promise[k]
                 /\ k \notin handlers'
            ELSE /\ promise'[k] = promise[k]
                 /\ k \in handlers' <=> k \in handlers]_vars

\* calls 1 and 2 were in flight together, the reply to 2 arrived first, and
\* each caller holds the result of its own reply
C2_Witness ==
    /\ last.op = "dispatch"
    /\ last.arg.method = Null
    /\ last.arg.id = 1
    /\ promise[1] = Settle(last.arg)
    /\ promise[2].state = "resolved"
    /\ promise[2].val # promise[1].val
    /\ promise[3] = Pending
    /\ handlers = {3}

\* C3: a call whose reply never arrives eventually fails (Timeout) and its
\* handler is removed.
C3_CallEventuallyCompletes ==
    \A k \in CallIds :
        (k \in handlers /\ promise[k] = Pending)
            ~> (k \notin handlers /\ promise[k] # Pending)

\* C4: once the connection has terminated, no call is pending on it: every
\* call that was pending has failed.
C4_NoPendingCallOnClosedConnection ==
    sock = "closed" => \A k \in handlers : promise[k].state = "rejected"

\* C5 as stated: a successful capture of the payload that the last successful
\* capture for the same identity delivered emits no snapshot_update.
C5_OneEventPerIdentityPayload ==
    [][(last'.op = "capture" /\ captured[last'.arg.id] = <<last'.arg.html>>)
        => SnapshotEvents' = {}]_vars

\* C5, amended: a successful capture on an entry emits snapshot_update, for
\* the entry's identity, if and only if its fingerprint differs from the
\* fingerprint the entry stores; so a capture of the payload that the last
\* successful capture on the same entry delivered emits nothing.
C5_DedupPerEntry ==
    [][last'.op = "capture" =>
        LET c == last'.arg.conn
            hash == hashString(last'.arg.html)
        IN  /\ heap[c].made
            /\ IF <<hash>> # heap[c].snapshotHash
               THEN out' = <<[type |-> "snapshot_update", cascadeId |-> heap[c].id]>>
               ELSE out' = <<>>
            /\ heap[c].lastCapture = <<last'.arg.html>> => out' = <<>>]_vars

\* a capture delivered again the payload the entry holds and nothing was
\* emitted, while another capture is in flight on that entry and a discovery
\* cycle is running
C5_Witness ==
    /\ last.op = "capture"
    /\ out = <<>>
    /\ heap[last.arg.conn].made
    /\ heap[last.arg.conn].snapshot = <<last.arg.html>>
    /\ sampling[last.arg.conn] > 0
    /\ runs # <<>>

\* C6: a cycle that ran alone has ended: the first registry a reader could
\* see during the cycle that was not the registry of the cycle's start is the
\* registry the cycle installed.
C6_ReadersSeeOldOrInstalled ==
    (last.done # <<>> /\ last.done[1].solo /\ last.done[1].mid # <<>>)
        => last.done[1].mid[1] = RegistryView

\* C7: the step that ends a discovery cycle installs the registry the cycle
\* built and, when its number of entries differs from that of the registry it
\* replaces, broadcasts the list of the installed registry; a cycle that
\* collected no candidate installs the empty registry.
C7_ListEventOnSizeChange ==
    [][last'.done # <<>> =>
        /\ cascades' = last'.done[1].new
        /\ Cardinality(DOMAIN cascades') # Cardinality(DOMAIN cascades)
              => out' = <<CascadeList(cascades', heap')>>
        /\ runs[last'.done[1].run].pc = "fetch" => cascades' = <<>>]_vars

\* a cycle without candidates has emptied a registry that had entries, and the
\* empty list was broadcast
C7_Witness ==
    /\ last.done # <<>>
    /\ last.done[1].old # {}
    /\ cascades = <<>>
    /\ out = <<[type |-> "cascade_list", cascades |-> {}]>>

\* C8: a step that changes the set of identities of the registry broadcasts a
\* list event.
C8_ListEventOnIdentityChange ==
    [][DOMAIN cascades' # DOMAIN cascades => ListEvents' # {}]_vars

\* the registry run r has built so far, after the step: the installed
\* registry when the step ended the cycle
BuiltAfter(r) ==
    IF last'.done # <<>> THEN cascades' ELSE runs'[r].newCascades

\* C9: when extractMetadata returns no result on the connection c that
\* discover()'s new-connection path opened, the step leaves c closed and
\* adds no entry: c is no entry object, and the registry the cycle is building
\* is the one it was building before the step.
C9_NoEntryOnMetadataFailure ==
    [][\A r \in DOMAIN runs :
        LET c == runs[r].cdp
        IN  (/\ runs[r].path = "new"
             /\ runs[r].pc \in {"settle", "meta"}
             /\ \A q \in DOMAIN runs' : runs'[q].cdp # c)
            => /\ heap'[c].ready \in {"closed", "free"}
               /\ ~heap'[c].made
               /\ c \notin Range(cascades')
               /\ BuiltAfter(r) = runs[r].newCascades]_vars

\* the metadata script found nothing on a freshly opened connection; the
\* connection is gone and the identity has no entry
C9_Witness ==
    /\ last.op = "meta"
    /\ last.arg.path = "new"
    /\ ~last.arg.found
    /\ heap[last.arg.conn].ready = "free"
    /\ \A r \in DOMAIN runs : runs[r].cdp # last.arg.conn
    /\ last.done # <<>>
    /\ cascades = <<>>

\* C10 as stated: the entry of a reconnection carries the metadata of the entry
\* it replaces merged with the newly extracted metadata.
C10_ReconnectionMergesMetadata ==
    [][\A r \in DOMAIN runs :
        (/\ runs[r].pc = "css"
         /\ last'.op = "css"
         /\ last'.arg.conn = runs[r].cdp
         /\ runs[r].prior # 0)
        => LET merged == Merge(heap[runs[r].prior].metadata, runs[r].meta)
           IN  \A f \in MetadataFields :
                   heap'[runs[r].cdp].metadata[f] = merged[f]]_vars

\* C10, amended: the new-connection path creates the entry on the connection
\* it opened, which is open, under the candidate's identity, with no snapshot
\* and with the metadata { windowTitle: the candidate's title, chatTitle,
\* isActive, url: as extracted, conversationId: as extracted or else the
\* most recent brain directory }; when the cycle found an entry of the identity
\* whose connection was not open, the new connection is another one than that
\* entry's, and the identity is that entry's.
C10_ReconnectionFreshEntry ==
    [][\A r \in DOMAIN runs :
        (runs[r].pc = "css" /\ last'.op = "css" /\ last'.arg.conn = runs[r].cdp)
        => LET c == runs[r].cdp
               p == runs[r].prior
               target == Head(runs[r].targets)
               id == hashString(target.webSocketDebuggerUrl)
           IN  /\ heap'[c].ready = "open"
               /\ heap'[c].made
               /\ heap'[c].id = id
               /\ heap'[c].snapshotHash = <<>>
               /\ heap'[c].metadata =
                     [windowTitle |-> target.title,
                      chatTitle |-> runs[r].meta.chatTitle,
                      isActive |-> runs[r].meta.isActive,
                      conversationId |-> runs[r].conversationId,
                      url |-> runs[r].meta.url]
               /\ BuiltAfter(r)[id] = c
               /\ p # 0 => /\ c # p
                           /\ heap[p].ready # "open"
                           /\ heap[p].made
                           /\ heap[p].id = id]_vars

\* an entry whose connection had dropped was replaced, under its identity, by
\* an entry on a new connection, and the cycle installed it
C10_Witness ==
    /\ last.op = "css"
    /\ last.arg.prior # 0
    /\ last.arg.prior # last.arg.conn
    /\ heap[last.arg.conn].made
    /\ heap[last.arg.conn].ready = "open"
    /\ last.done # <<>>
    /\ heap[last.arg.conn].id \in last.done[1].old
    /\ cascades = Put(<<>>, heap[last.arg.conn].id, last.arg.conn)

\* C11: an entry whose page has stopped replying while its connection stays
\* open is eventually removed from the registry.
C11_SilentEntryEventuallyRemoved ==
    \A c \in Conns :
        (c \in Range(cascades) /\ heap[c].mute /\ heap[c].ready = "open")
            ~> (c \notin Range(cascades))

\* C12: an updateSnapshots batch leaves an entry whose context id is unset
\* as it is: no call goes out on its connection, its snapshot, fingerprint and
\* every other field are unchanged and no event is emitted for it, while the
\* batch sends the call of every entry whose context id is set.
C12_UnsetContextIsSkipped ==
    [][last'.op = "sample" =>
        \A c \in Range(cascades) :
            IF heap[c].rootContextId = 0
            THEN /\ sampling'[c] = sampling[c]
                 /\ heap'[c] = heap[c]
                 /\ out' = <<>>
            ELSE heap[c].ready = "open" => sampling'[c] = sampling[c] + 1]_vars

\* a batch ran while the registry held an entry with an open connection and
\* no context id, and nothing is in flight on it
C12_Witness ==
    /\ last.op = "sample"
    /\ out = <<>>
    /\ \E c \in Range(cascades) :
          /\ heap[c].made
          /\ heap[c].ready = "open"
          /\ heap[c].rootContextId = 0
          /\ sampling[c] = 0

\* C13: whatever the ports answer, and whatever happens to one candidate, a
\* discover() invocation ends only by installing the registry it has built.
C13_CycleEndsByInstalling ==
    [][Len(runs') < Len(runs) => last'.done # <<>>]_vars

\* C14: two distinct transport addresses never get the same identity.
C14_DistinctAddressesDistinctIdentities ==
    (hashed.ids # <<>> /\ hashed.first # hashed.second)
        => hashed.ids[1] # hashed.ids[2]

\* C15: the step in which a subscriber connects broadcasts one list event,
\* made of the entries of the registry installed at that moment, and the new
\* subscriber is among the recipients of the broadcast.
C15_ListOnConnect ==
    [][last'.op = "subscribe" =>
        /\ last'.arg \in Recipients'
        /\ out' = <<CascadeList(cascades, heap)>>
        /\ cascades' = cascades
        /\ heap' = heap]_vars

\* a second subscriber connected while the registry held an entry, and the
\* list with that entry was broadcast
C15_Witness ==
    /\ last.op = "subscribe"
    /\ Recipients = Subscribers
    /\ cascades # <<>>
    /\ out = <<CascadeList(cascades, heap)>>
    /\ Cardinality(out[1].cascades) = 1

\* C16: when the reply to the direct evaluation is an error or a payload
\* that is not marked found, the remembered context id of the connection is
\* unset once the step has gone on to the search.
C16_DirectFailureClearsContextId ==
    [][\A r \in DOMAIN runs :
        (/\ runs[r].pc = "meta"
         /\ runs[r].phase = "direct"
         /\ last'.op = "meta"
         /\ last'.arg.conn = runs[r].cdp
         /\ ~last'.arg.found)
        => heap'[runs[r].cdp].rootContextId = 0]_vars

\* C17: when extractMetadata gives up (the reply is not a found payload and
\* no further call follows), every context in the connection's context list
\* has been evaluated by this extractMetadata.
C17_SearchTriesEveryContext ==
    [][\A r \in DOMAIN runs :
        LET c == runs[r].cdp
        IN  (/\ runs[r].pc = "meta"
             /\ last'.op = "meta"
             /\ last'.arg.conn = c
             /\ ~last'.arg.found
             /\ \A q \in DOMAIN runs' : ~(runs'[q].cdp = c /\ runs'[q].pc = "meta"))
            => Range(heap[c].contexts) \subseteq runs[r].tried]_vars

\* C18: the step in which the refresh of an entry with an open connection
\* succeeds opens no connection to the candidate's address, puts the same
\* entry object, on the same connection, in the registry the cycle builds,
\* changes nothing of it but its metadata and its context id, gives every
\* metadata field of the refresh the refreshed value and leaves the other
\* metadata fields as they were, and sets the context id to the one in which
\* the metadata was found.
C18_ReuseKeepsEntry ==
    [][\A r \in DOMAIN runs :
        LET c == runs[r].cdp
            id == hashString(Head(runs[r].targets).webSocketDebuggerUrl)
            refresh == Merge(last'.arg.value, [contextId |-> runs[r].ctx])
            opening(objs) == {d \in Conns : /\ objs[d].ready = "connecting"
                                            /\ objs[d].url = heap[c].url}
        IN  (/\ runs[r].pc = "meta"
             /\ runs[r].path = "reuse"
             /\ last'.op = "meta"
             /\ last'.arg.conn = c
             /\ last'.arg.found)
            => /\ opening(heap') \subseteq opening(heap)
               /\ heap[c].id = id
               /\ BuiltAfter(r)[id] = c
               /\ \A f \in DOMAIN heap[c] \ {"metadata", "rootContextId"} :
                     heap'[c][f] = heap[c][f]
               /\ DOMAIN heap'[c].metadata
                     = DOMAIN heap[c].metadata \cup DOMAIN refresh
               /\ \A f \in DOMAIN refresh : heap'[c].metadata[f] = refresh[f]
               /\ \A f \in DOMAIN heap[c].metadata \ DOMAIN refresh :
                     heap'[c].metadata[f] = heap[c].metadata[f]
               /\ heap'[c].rootContextId = runs[r].ctx]_vars

\* a refresh changed the chat title of an entry; the cycle ended and installed
\* the same entry, which keeps its window title and its style payload
C18_Witness ==
    /\ last.op = "meta"
    /\ last.arg.path = "reuse"
    /\ last.arg.found
    /\ last.done # <<>>
    /\ heap[last.arg.conn].made
    /\ cascades = Put(<<>>, heap[last.arg.conn].id, last.arg.conn)
    /\ heap[last.arg.conn].metadata.chatTitle = "Agent"
    /\ heap[last.arg.conn].metadata.chatTitle = last.arg.value.chatTitle
    /\ heap[last.arg.conn].metadata.windowTitle = <<"file", "proj", "editor">>
    /\ heap[last.arg.conn].css = "css1"

\* C19: in every reachable state, every open connection that discover() has
\* opened is held by an entry of the installed registry or by a discovery
\* cycle in progress (as the connection it is working on, or in the registry
\* it is building).
C19_NoOrphanConnections ==
    \A c \in Conns :
        heap[c].ready = "open"
        => \/ c \in Range(cascades)
           \/ \E r \in DOMAIN runs :
                 \/ runs[r].cdp = c
                 \/ c \in Range(runs[r].newCascades)

\* C20: a discovery cycle never installs its registry after a cycle that
\* started later than it has installed its own.
C20_InstalledInStartOrder ==
    last.done # <<>> => ~last.done[1].stale

\* C21: a capture that emits snapshot_update emits it for an identity that
\* is an entry of the installed registry, and the snapshot it announces is the
\* snapshot that registry entry stores.
C21_SnapshotEventNamesInstalledEntry ==
    [][(last'.op = "capture" /\ SnapshotEvents' # {})
        => LET id == last'.arg.id
           IN  /\ \A i \in SnapshotEvents' : out'[i].cascadeId = id
               /\ id \in DOMAIN cascades'
               /\ heap'[cascades'[id]].snapshot = <<last'.arg.html>>]_vars

\* C22: when an entry whose conversation id is a brain directory, given by
\* the fallback at its creation, is kept by a cycle whose refresh finds the
\* page but no conversation id, the entry's conversation id stays as it was.
C22_FallbackConversationIdKept ==
    [][\A r \in DOMAIN runs :
        LET c == runs[r].cdp
        IN  (/\ runs[r].pc = "meta"
             /\ runs[r].path = "reuse"
             /\ last'.op = "meta"
             /\ last'.arg.conn = c
             /\ last'.arg.found
             /\ last'.arg.value.conversationId = Null
             /\ heap[c].metadata.conversationId \in BrainDirs \ {Null})
            => heap'[c].metadata.conversationId
                 = heap[c].metadata.conversationId]_vars

=============================================================================
